---- MODULE Spec2Model ----
(***************************************************************************)
(* Cookie key rotation engine (src/src/rotation.rs): RotatingKeys behind   *)
(* an RwLock, rotated by the periodic_rotate ticker and read by handlers.  *)
(* NTS-KE client handshake (src/src/nts_ke/client.rs): run_nts_ke_client.  *)
(***************************************************************************)
EXTENDS Integers, Sequences, FiniteSets, TLC

(***************************************************************************)
(* Bounds of the model.                                                    *)
(***************************************************************************)
\* clock readings are era + Margin + t with t in 0..MaxTime
MaxTime == 2
\* forward_periods and backward_periods are drawn from 0..MaxPeriods
MaxPeriods == 1
\* handler threads that take the read guard
MaxReaders == 1
\* records the server sends at most before it closes the connection
MaxRecords == 3

(***************************************************************************)
(* Configuration of the test rotor (test_rotation).                        *)
(***************************************************************************)
prefix == <<"t", "e", "s", "t">>
master_key == <<0, 32>>
InitLatest == [j \in 0..3 |-> j + 1]

VARIABLES
    duration,           \* RotatingKeys.duration
    forward_periods,    \* RotatingKeys.forward_periods
    backward_periods,   \* RotatingKeys.backward_periods
    latest,             \* RotatingKeys.latest
    keys,               \* RotatingKeys.keys : KeyID -> wrapped key
    rw,                 \* the RwLock: [writer, readers]
    pc,                 \* position of the ticker thread
    now,                \* clock reading (seconds since the epoch) of the current call
    i,                  \* loop variable of internal_rotate
    failed,             \* local `failed` of internal_rotate
    slot_epoch,         \* local `epoch` of the last loop iteration
    key_id,             \* local `key_id` of the last loop iteration
    db_loc,             \* local `db_loc` of the last loop iteration
    db_val,             \* local `db_val` of the last loop iteration
    got,                \* history: what client.get answered in the current call, by db_loc
    removed,            \* history: keys.remove found an entry
    latest_from,        \* history: the epoch latest was last derived from, as a set of at most one
    ret,                \* result of the current rotate_keys call; history once inner dropped it
    restlen,            \* value read by read_sleep
    rpc,                \* position of each handler thread
    hs_pc,              \* position of the call of run_nts_ke_client
    client_config,      \* its argument
    stream,             \* tls_stream over the TcpStream: what was written, flushed, read, shut down
    nts_keys,           \* local `keys` of run_nts_ke_client
    state,              \* local `state`: ReceivedNtsKeRecordState
    header,             \* local `header` of the current loop iteration
    body,               \* local `body` of the current loop iteration
    hs_ret              \* what run_nts_ke_client returned

\* the rotation engine
rot == <<duration, forward_periods, backward_periods, latest, keys, rw, pc, now,
         i, failed, slot_epoch, key_id, db_loc, db_val, got, removed,
         latest_from, ret, restlen, rpc>>
\* the handshake
hs == <<hs_pc, client_config, stream, nts_keys, state, header, body, hs_ret>>

vars == <<rot, hs>>

config == <<duration, forward_periods, backward_periods>>
locals == <<i, failed, slot_epoch, key_id, db_loc, db_val, got, removed>>

(***************************************************************************)
(* Values.                                                                 *)
(***************************************************************************)
\* periods the rotor is configured with: the test's 1 second, and 2 seconds
Durations == {1, 2}
Pow24 == 256 * 256 * 256
\* clock readings below and from 2^24 seconds on, where the fourth byte of a KeyID starts to count
Eras == {0, Pow24}
\* readings start late enough for every epoch of a window to lie after UNIX_EPOCH
Margin == (MaxPeriods + 1) * 2
Times == {era + Margin + t : era \in Eras, t \in 0..MaxTime}
\* SystemTime::now() may lie before UNIX_EPOCH, and duration_since then fails
BeforeEpoch(t) == -t
Readers == 1..MaxReaders
Ticker == 0
\* raw key bytes the shared cache holds: vec![1; 32] as in the test
RawKeys == {1}

CacheNone == [tag |-> "None"]
CacheErr == [tag |-> "Err"]
CacheSome(v) == [tag |-> "Some", val |-> v]
Responses == {CacheNone, CacheErr} \cup {CacheSome(v) : v \in RawKeys}

NoKeyID == <<>>
EmptyMap == [x \in {} |-> 0]

(***************************************************************************)
(* be_bytes: n as u32, then three iterations of ret[3 - i] = u as u8;      *)
(* u = u >> 8.  A u32 is kept as its two 16-bit halves.                    *)
(***************************************************************************)
AsU32(n) == [hi |-> (n \div 65536) % 65536, lo |-> n % 65536]
AsU8(u) == u.lo % 256
Shr8(u) == [hi |-> u.hi \div 256, lo |-> (u.hi % 256) * 256 + (u.lo \div 256)]

\* the range 0..3 of the for loop is exclusive of its end
be_bytes_range == 0..(3 - 1)

RECURSIVE be_bytes_loop(_, _, _)
be_bytes_loop(r, u, k) ==
    IF k \notin be_bytes_range THEN r
    ELSE be_bytes_loop([r EXCEPT ![3 - k] = AsU8(u)], Shr8(u), k + 1)

be_bytes(n) == be_bytes_loop([j \in 0..3 |-> 0], AsU32(n), 0)

(***************************************************************************)
(* epoch: i64 division truncates towards zero.                             *)
(***************************************************************************)
Abs(x) == IF x < 0 THEN -x ELSE x
TruncDiv(a, b) ==
    LET q == Abs(a) \div Abs(b) IN IF (a < 0) # (b < 0) THEN -q ELSE q

epoch(seconds, offset) == (TruncDiv(seconds, duration) + offset) * duration

(***************************************************************************)
(* format!("{}/{}", prefix, epoch): decimal rendering of an i64.           *)
(***************************************************************************)
DigitChar(d) == <<"0", "1", "2", "3", "4", "5", "6", "7", "8", "9">>[d + 1]

RECURSIVE Digits(_)
Digits(n) == IF n < 10 THEN <<DigitChar(n)>>
             ELSE Digits(n \div 10) \o <<DigitChar(n % 10)>>

Decimal(n) == IF n < 0 THEN <<"-">> \o Digits(-n) ELSE Digits(n)

format_db_loc(e) == prefix \o <<"/">> \o Decimal(e)

(***************************************************************************)
(* compute_wrap: HMAC-SHA256 under master_key, kept as a free constructor. *)
(***************************************************************************)
compute_wrap(val) == [hmac_key |-> master_key, msg |-> val]

(***************************************************************************)
(* HashMap insert / remove.                                                *)
(***************************************************************************)
Insert(m, k, v) == [x \in DOMAIN m \cup {k} |-> IF x = k THEN v ELSE m[x]]
Remove(m, k) == [x \in DOMAIN m \ {k} |-> m[x]]

(***************************************************************************)
(* internal_rotate, piecewise.                                             *)
(***************************************************************************)
\* the loop range -backward_periods..(forward_periods + 1), end exclusive
window == (-backward_periods)..forward_periods

\* mutation: a slot that is absent evicts the entry stored under its KeyID
install_evicting(m, id, resp) ==
    IF resp.tag = "Some" THEN Insert(m, id, compute_wrap(resp.val)) ELSE Remove(m, id)

\* the match on db_val
install(m, id, resp) ==
    IF resp.tag = "Some" THEN Insert(m, id, compute_wrap(resp.val)) ELSE m

marks_failed(resp) == resp.tag = "None"

\* mutation: the oldest slot of the window is removed instead of the one before it
retire_key_in_window(ts) == be_bytes(epoch(ts, -backward_periods))

retire_key(ts) == be_bytes(epoch(ts, -backward_periods - 1))

latest_key(ts) == be_bytes(epoch(ts, 0))

\* mutation: the failed flag is not consulted
rotate_result_ok(f) == "Ok"

rotate_result(f) == IF f THEN "CacheMiss" ELSE "Ok"

(***************************************************************************)
(* RwLock.                                                                 *)
(***************************************************************************)
can_write(l) == ~l.writer /\ l.readers = {}
\* mutation: the write guard outlives inner
release_write_kept(l) == l

\* the write guard, a temporary of the statement in inner, is dropped
release_write(l) == [l EXCEPT !.writer = FALSE]
\* mutation: read() does not wait for the writer
can_read_always(l) == TRUE

can_read(l) == ~l.writer

\* mutation: inner unwraps the Result of rotate_keys
after_inner_unwrap(r) == IF r = "Ok" THEN "read_sleep" ELSE "panicked"

\* inner discards the Result of rotate_keys
after_inner(r) == "read_sleep"

(***************************************************************************)
(* NTS-KE records on the wire (spec 4.1): a 4-byte header, two bytes of    *)
(* (critical << 15) | type and two bytes of body length, then the body.    *)
(***************************************************************************)
HEADER_SIZE == 4
DEFAULT_NTP_PORT == 123
DEFAULT_SCHEME == 0
\* client_config.host, as bytes
Host == <<104>>

None == [tag |-> "None"]
Some(v) == [tag |-> "Some", val |-> v]
unwrap_or(o, d) == IF o.tag = "Some" THEN o.val ELSE d

U16Hi(n) == (n \div 256) % 256
U16Lo(n) == n % 256
u16_from_be_bytes(hi, lo) == hi * 256 + lo

Frame(c, t, b) == [critical |-> c, type |-> t, body |-> b]

\* serialize: header, then body
serialize(r) ==
    << U16Hi((IF r.critical THEN 32768 ELSE 0) + r.type),
       U16Lo((IF r.critical THEN 32768 ELSE 0) + r.type),
       U16Hi(Len(r.body)),
       U16Lo(Len(r.body)) >> \o r.body

\* the three records of the request
next_protocol_record == Frame(TRUE, 1, <<0, 0>>)
aead_record == Frame(TRUE, 4, <<0, 15>>)
end_record == Frame(TRUE, 0, <<>>)
clientrec == serialize(next_protocol_record) \o serialize(aead_record) \o serialize(end_record)

RECURSIVE U16List(_)
U16List(b) ==
    IF Len(b) < 2 THEN <<>>
    ELSE <<u16_from_be_bytes(b[1], b[2])>> \o U16List(SubSeq(b, 3, Len(b)))

ValidUtf8(b) == \A k \in 1..Len(b) : b[k] < 128

Parsed(kind, v) == [tag |-> "Ok", kind |-> kind, val |-> v]
Parsing == [tag |-> "Parsing"]
UnknownCriticalRecord == [tag |-> "UnknownCriticalRecord"]
UnknownNotCriticalRecord == [tag |-> "UnknownNotCriticalRecord"]

\* deserialize(Party::Client, bytes): bytes is a header followed by the body it declares
deserialize(bytes) ==
    LET word == u16_from_be_bytes(bytes[1], bytes[2])
        critical == word >= 32768
        type == word % 32768
        b == SubSeq(bytes, HEADER_SIZE + 1, Len(bytes))
    IN  CASE type = 0 -> IF Len(b) = 0 /\ critical THEN Parsed("EndOfMessage", <<>>) ELSE Parsing
          [] type = 1 -> IF Len(b) % 2 = 0 THEN Parsed("NextProtocol", U16List(b)) ELSE Parsing
          [] type = 2 -> IF Len(b) = 2 THEN Parsed("Error", u16_from_be_bytes(b[1], b[2])) ELSE Parsing
          [] type = 3 -> IF Len(b) = 2 THEN Parsed("Warning", u16_from_be_bytes(b[1], b[2])) ELSE Parsing
          [] type = 4 -> IF Len(b) % 2 = 0 THEN Parsed("AeadAlgorithm", U16List(b)) ELSE Parsing
          [] type = 5 -> Parsed("NewCookie", b)
          [] type = 6 -> IF ValidUtf8(b) THEN Parsed("Server", b) ELSE Parsing
          [] type = 7 -> IF Len(b) = 2 THEN Parsed("Port", u16_from_be_bytes(b[1], b[2])) ELSE Parsing
          [] OTHER -> IF critical THEN UnknownCriticalRecord ELSE UnknownNotCriticalRecord

\* ReceivedNtsKeRecordState as run_nts_ke_client creates it
state_new ==
    [finished |-> FALSE, next_protocols |-> <<>>, aead_scheme |-> <<>>,
     cookies |-> <<>>, next_server |-> None, next_port |-> None]

\* process_record(record, &mut state): the state it leaves, or the error it returns
process_record(record, st) ==
    CASE record.kind = "EndOfMessage" -> [tag |-> "Ok", state |-> [st EXCEPT !.finished = TRUE]]
      [] record.kind = "NextProtocol" ->
            [tag |-> "Ok", state |-> [st EXCEPT !.next_protocols = @ \o record.val]]
      [] record.kind = "AeadAlgorithm" ->
            [tag |-> "Ok", state |-> [st EXCEPT !.aead_scheme = @ \o record.val]]
      [] record.kind = "NewCookie" ->
            [tag |-> "Ok", state |-> [st EXCEPT !.cookies = Append(@, record.val)]]
      [] record.kind = "Server" ->
            [tag |-> "Ok", state |-> [st EXCEPT !.next_server = Some(record.val)]]
      [] record.kind = "Port" ->
            [tag |-> "Ok", state |-> [st EXCEPT !.next_port = Some(record.val)]]
      [] record.kind = "Warning" -> [tag |-> "Ok", state |-> st]
      [] record.kind = "Error" -> [tag |-> "Err", code |-> record.val]

\* the records a server sends, one of each shape the client tells apart
Frames ==
    { Frame(TRUE, 0, <<>>),          \* End-of-Message
      Frame(FALSE, 0, <<>>),         \* End-of-Message without the critical bit
      Frame(TRUE, 1, <<0, 0>>),      \* Next-Protocol [NTPv4]
      Frame(TRUE, 2, <<0, 1>>),      \* Error(1)
      Frame(TRUE, 3, <<0, 1>>),      \* Warning(1)
      Frame(TRUE, 4, <<0, 15>>),     \* AEAD [15]
      Frame(TRUE, 4, <<0, 30>>),     \* AEAD [30]
      Frame(FALSE, 5, <<7>>),        \* New Cookie
      Frame(FALSE, 6, <<97>>),       \* Server "a"
      Frame(FALSE, 6, <<98>>),       \* Server "b"
      Frame(FALSE, 7, <<4, 210>>),   \* Port 1234
      Frame(FALSE, 7, <<0, 124>>),   \* Port 124
      Frame(FALSE, 7, <<1>>),        \* Port with a one-byte body
      Frame(TRUE, 4660, <<>>),       \* type 0x1234, critical
      Frame(FALSE, 4660, <<>>) }     \* type 0x1234, not critical

stream_new == [written |-> <<>>, flushed |-> FALSE, read |-> <<>>, nread |-> 0,
               shut_write |-> FALSE]

Err(kind) == [tag |-> "Err", kind |-> kind]
Panic == [tag |-> "Panic"]

(***************************************************************************)
(* Initial state: a rotor as the test builds it, the ticker just spawned.  *)
(***************************************************************************)
Init ==
    /\ duration \in Durations
    /\ forward_periods \in 0..MaxPeriods
    /\ backward_periods \in 0..MaxPeriods
    /\ latest = InitLatest
    /\ keys = EmptyMap
    /\ rw = [writer |-> FALSE, readers |-> {}]
    /\ pc = "inner"
    /\ now = 0
    /\ i = 0
    /\ failed = FALSE
    /\ slot_epoch = 0
    /\ key_id = NoKeyID
    /\ db_loc = <<>>
    /\ db_val = CacheNone
    /\ got = EmptyMap
    /\ removed = FALSE
    /\ latest_from = {}
    /\ ret = "None"
    /\ restlen = 0
    /\ rpc = [r \in Readers |-> "idle"]
    /\ hs_pc = "start"
    /\ client_config = [host |-> Host, use_ipv6 |-> FALSE]
    /\ stream = stream_new
    /\ nts_keys = None
    /\ state = state_new
    /\ header = <<>>
    /\ body = <<>>
    /\ hs_ret = None

(***************************************************************************)
(* The ticker thread.                                                      *)
(***************************************************************************)
\* inner: rotor.write().unwrap()
AcquireWrite ==
    /\ pc = "inner"
    /\ can_write(rw)
    /\ rw' = [rw EXCEPT !.writer = TRUE]
    /\ pc' = "rotate_keys"
    /\ UNCHANGED <<config, latest, keys, now, locals, latest_from, ret, restlen, rpc>>
    /\ UNCHANGED hs

\* rotate_keys up to the call of internal_rotate
RotateKeysEnter ==
    /\ pc = "rotate_keys"
    /\ \E t \in Times, clock_behind \in BOOLEAN, connected \in BOOLEAN :
        /\ now' = IF clock_behind THEN BeforeEpoch(t) ELSE t
        /\ IF ~connected
           THEN /\ ret' = "Transport"
                /\ pc' = "drop_write"
                /\ UNCHANGED <<i, failed>>
           ELSE IF now' < 0
           THEN /\ ret' = "Clock"
                /\ pc' = "drop_write"
                /\ UNCHANGED <<i, failed>>
           ELSE /\ ret' = "Running"
                /\ failed' = FALSE
                /\ i' = -backward_periods
                /\ pc' = "loop"
    /\ UNCHANGED <<config, latest, keys, rw, slot_epoch, key_id, db_loc, db_val,
                   got, removed, latest_from, restlen, rpc>>
    /\ UNCHANGED hs

\* one iteration of the for loop
LoopGet ==
    /\ pc = "loop"
    /\ i \in window
    /\ LET e == epoch(now, i) IN
       \E resp \in Responses :
        /\ slot_epoch' = e
        /\ db_loc' = format_db_loc(e)
        /\ got' = Insert(got, format_db_loc(e), resp)
        /\ IF resp = CacheErr
           THEN /\ ret' = "Transport"
                /\ pc' = "drop_write"
                /\ key_id' = NoKeyID
                /\ db_val' = CacheErr
                /\ UNCHANGED <<keys, i, failed>>
           ELSE /\ db_val' = resp
                /\ key_id' = be_bytes(e)
                /\ keys' = install(keys, be_bytes(e), resp)
                /\ failed' = (failed \/ marks_failed(resp))
                /\ i' = i + 1
                /\ pc' = IF i + 1 \in window THEN "loop" ELSE "retire"
                /\ UNCHANGED ret
    /\ UNCHANGED <<config, latest, rw, now, removed, latest_from, restlen, rpc>>
    /\ UNCHANGED hs

\* self.keys.remove(...)
Retire ==
    /\ pc = "retire"
    /\ removed' = (retire_key(now) \in DOMAIN keys)
    /\ keys' = Remove(keys, retire_key(now))
    /\ pc' = "set_latest"
    /\ UNCHANGED <<config, latest, rw, now, i, failed, slot_epoch, key_id, db_loc,
                   db_val, got, latest_from, ret, restlen, rpc>>
    /\ UNCHANGED hs

\* self.latest = ...; return
SetLatest ==
    /\ pc = "set_latest"
    /\ latest' = latest_key(now)
    /\ latest_from' = {epoch(now, 0)}
    /\ ret' = rotate_result(failed)
    /\ pc' = "drop_write"
    /\ UNCHANGED <<config, keys, rw, now, locals, restlen, rpc>>
    /\ UNCHANGED hs

\* end of inner: the write guard is dropped, the frame of rotate_keys is gone
DropWrite ==
    /\ pc = "drop_write"
    /\ rw' = release_write(rw)
    /\ pc' = after_inner(ret)
    /\ now' = 0
    /\ i' = 0
    /\ failed' = FALSE
    /\ slot_epoch' = 0
    /\ key_id' = NoKeyID
    /\ db_loc' = <<>>
    /\ db_val' = CacheNone
    /\ got' = EmptyMap
    /\ removed' = FALSE
    /\ UNCHANGED <<config, latest, keys, latest_from, ret, restlen, rpc>>
    /\ UNCHANGED hs

\* read_sleep: rotor.read().unwrap().duration
ReadSleepAcquire ==
    /\ pc = "read_sleep"
    /\ can_read(rw)
    /\ rw' = [rw EXCEPT !.readers = @ \cup {Ticker}]
    /\ restlen' = duration
    /\ pc' = "drop_read"
    /\ UNCHANGED <<config, latest, keys, now, locals, latest_from, ret, rpc>>
    /\ UNCHANGED hs

ReadSleepRelease ==
    /\ pc = "drop_read"
    /\ rw' = [rw EXCEPT !.readers = @ \ {Ticker}]
    /\ pc' = "sleep"
    /\ UNCHANGED <<config, latest, keys, now, locals, latest_from, ret, restlen, rpc>>
    /\ UNCHANGED hs

\* thread::sleep(restlen)
Sleep ==
    /\ pc = "sleep"
    /\ pc' = "inner"
    /\ restlen' = 0
    /\ UNCHANGED <<config, latest, keys, rw, now, locals, latest_from, ret, rpc>>
    /\ UNCHANGED hs

(***************************************************************************)
(* Handler threads holding a read guard.                                   *)
(***************************************************************************)
ReaderAcquire(r) ==
    /\ rpc[r] = "idle"
    /\ can_read(rw)
    /\ rw' = [rw EXCEPT !.readers = @ \cup {r}]
    /\ rpc' = [rpc EXCEPT ![r] = "reading"]
    /\ UNCHANGED <<config, latest, keys, pc, now, locals, latest_from, ret, restlen>>
    /\ UNCHANGED hs

ReaderRelease(r) ==
    /\ rpc[r] = "reading"
    /\ rw' = [rw EXCEPT !.readers = @ \ {r}]
    /\ rpc' = [rpc EXCEPT ![r] = "idle"]
    /\ UNCHANGED <<config, latest, keys, pc, now, locals, latest_from, ret, restlen>>
    /\ UNCHANGED hs

Next ==
    \/ AcquireWrite
    \/ RotateKeysEnter
    \/ LoopGet
    \/ Retire
    \/ SetLatest
    \/ DropWrite
    \/ ReadSleepAcquire
    \/ ReadSleepRelease
    \/ Sleep
    \/ \E r \in Readers : ReaderAcquire(r)
    \/ \E r \in Readers : ReaderRelease(r)

Spec == Init /\ [][Next]_vars

(***************************************************************************)
(* Scheduling of the ticker thread.  Every step of the thread is a bounded *)
(* computation, a cache round-trip or a finite sleep, so it is taken once  *)
(* it stays enabled.  rotor.write() is granted when the lock is free,      *)
(* which handlers leave it again and again: their guards are scoped.       *)
(***************************************************************************)
LockFree == \A r \in Readers : rpc[r] = "idle"

\* checked for the rotor of test_rotation: duration 1, one period forward, one backward
FairInit ==
    /\ Init
    /\ duration = 1
    /\ forward_periods = 1
    /\ backward_periods = 1

FairSpec ==
    /\ FairInit
    /\ [][Next]_vars
    /\ SF_vars(AcquireWrite)
    /\ WF_vars(RotateKeysEnter)
    /\ WF_vars(LoopGet)
    /\ WF_vars(Retire)
    /\ WF_vars(SetLatest)
    /\ WF_vars(DropWrite)
    /\ WF_vars(ReadSleepAcquire)
    /\ WF_vars(ReadSleepRelease)
    /\ WF_vars(Sleep)
    /\ []<>LockFree

(***************************************************************************)
(* Vocabulary of the properties.                                           *)
(***************************************************************************)
\* epoch(t, k) of the specification: floor(t / duration), shifted, scaled
EpochOf(t, k) == ((t \div duration) + k) * duration

\* the 4-byte big-endian encoding of the low 32 bits of n
Be32(n) == [j \in 0..3 |-> (n \div (256 ^ (3 - j))) % 256]

WindowEpochs(t) == {EpochOf(t, k) : k \in (-backward_periods)..forward_periods}

\* rotate_keys has returned to inner, which still holds the write guard
Returned == pc = "drop_write"
\* ... after processing its whole window
Processed == Returned /\ ret \in {"Ok", "CacheMiss"}

ErrorKinds == {"CacheMiss", "Transport", "Clock"}

\* the cache answered the current call with a value for the slot of epoch e
Held(e) ==
    /\ format_db_loc(e) \in DOMAIN got
    /\ got[format_db_loc(e)].tag = "Some"

(***************************************************************************)
(* C1: whenever rotate_keys returns success, keys holds exactly            *)
(* forward_periods + backward_periods + 1 entries, at whatever times the   *)
(* earlier rotations were made.                                            *)
(***************************************************************************)
C1_WindowSize ==
    (Returned /\ ret = "Ok") =>
        Cardinality(DOMAIN keys) = forward_periods + backward_periods + 1

(***************************************************************************)
(* C2: be_bytes(epoch) is the 4-byte big-endian encoding of the low 32     *)
(* bits of epoch, for every epoch the rotation hands to it.                *)
(***************************************************************************)
C2_BigEndian ==
    (pc \in {"loop", "retire", "set_latest", "drop_write"} /\ key_id # NoKeyID) =>
        key_id = Be32(slot_epoch)

(***************************************************************************)
(* C3: after a rotation at time now every entry of keys is filed under the *)
(* KeyId of an epoch of the current window; none is left from an older     *)
(* epoch.                                                                  *)
(***************************************************************************)
C3_OnlyWindow ==
    Processed =>
        \A id \in DOMAIN keys : \E e \in WindowEpochs(now) : id = be_bytes(e)

(***************************************************************************)
(* C4: after a rotate_keys(now) call that processed its whole window, keys *)
(* has no entry under the KeyId of epoch(now, -backward_periods - 1),      *)
(* neither under its big-endian encoding nor under the bytes be_bytes      *)
(* yields for it.                                                          *)
(***************************************************************************)
C4_Retired ==
    Processed =>
        LET e == EpochOf(now, -backward_periods - 1) IN
            /\ Be32(e) \notin DOMAIN keys
            /\ be_bytes(e) \notin DOMAIN keys

\* a rotation whose removal found the retired entry in the map
C4_Witness == Processed /\ removed /\ ret = "Ok"

(***************************************************************************)
(* C5: rotate_keys returns success exactly when every slot of the window   *)
(* was read from the cache and none was absent; an absent slot makes the   *)
(* call return an error.                                                   *)
(***************************************************************************)
C5_SuccessIffAllPresent ==
    Returned =>
        (ret = "Ok" <=> \A e \in WindowEpochs(now) : Held(e))

\* a rotation that found every slot of a window of several and returned success
C5_Witness ==
    /\ Returned
    /\ ret = "Ok"
    /\ \A e \in WindowEpochs(now) : Held(e)
    /\ forward_periods + backward_periods >= 1
    /\ Cardinality(DOMAIN keys) > forward_periods + backward_periods + 1

(***************************************************************************)
(* C6: when a slot of the window is missing, rotate_keys returns the       *)
(* cache-miss error, and still every slot the cache had is installed,      *)
(* wrapped, under its KeyId, the retired KeyId is removed, and latest is   *)
(* be32(epoch(now, 0)).                                                    *)
(***************************************************************************)
C6_PartialRotation ==
    (Returned /\ ret = "CacheMiss") =>
        /\ \A e \in WindowEpochs(now) :
              Held(e) =>
                  /\ Be32(e) \in DOMAIN keys
                  /\ keys[Be32(e)] = compute_wrap(got[format_db_loc(e)].val)
        /\ Be32(EpochOf(now, -backward_periods - 1)) \notin DOMAIN keys
        /\ latest = Be32(EpochOf(now, 0))

(***************************************************************************)
(* C7: whenever a rotate_keys call made at time now has returned, with     *)
(* success or with any error, latest is the KeyId of the epoch             *)
(* floor(now / duration) * duration.                                       *)
(***************************************************************************)
C7_LatestAfterAnyReturn ==
    Returned => latest = Be32(EpochOf(now, 0))

(***************************************************************************)
(* C8: a rotation in a later epoch than the rotation that assigned latest  *)
(* before it leaves a different value in latest.                           *)
(***************************************************************************)
C8_LatestDiffers ==
    [][ (pc = "set_latest" /\ pc' = "drop_write") =>
          \A e1 \in latest_from : e1 < EpochOf(now, 0) => latest' # latest ]_vars

(***************************************************************************)
(* C9: a handler holding the read guard never sees a rotation in progress: *)
(* while any guard is held the ticker is outside rotate_keys, and no step  *)
(* changes keys or latest.                                                 *)
(***************************************************************************)
InRotation == pc \in {"rotate_keys", "loop", "retire", "set_latest", "drop_write"}

C9_NoPartialRotation ==
    (\E r \in Readers : rpc[r] = "reading") => (~InRotation /\ ~rw.writer)

\* a handler reading the rotated map while the ticker waits for the write guard
C9_Witness ==
    /\ \E r \in Readers : rpc[r] = "reading"
    /\ pc = "inner"
    /\ keys # EmptyMap
    /\ latest_from # {}

(***************************************************************************)
(* C10: the ticker never terminates: after a rotate_keys call that returns *)
(* any error it still reads duration, sleeps and invokes rotate_keys       *)
(* again, and rotate_keys is invoked infinitely often.                     *)
(***************************************************************************)
ErrReturned == Returned /\ ret \in ErrorKinds

C10_TickerGoesOn ==
    /\ []<>(pc = "rotate_keys")
    /\ ErrReturned ~> (pc = "sleep" /\ restlen = duration)
    /\ ErrReturned ~> (pc = "rotate_keys")

\* the ticker about to invoke rotate_keys again after a call that returned an error
C10_Witness == pc = "rotate_keys" /\ ret \in ErrorKinds

(***************************************************************************)
(* run_nts_ke_client (src/src/nts_ke/client.rs): one call, from the        *)
(* resolution of the host to the returned Result.                          *)
(***************************************************************************)
\* gen_key: the two exported keys, by exporter label and context
gen_key ==
    [c2s |-> <<"EXPORTER-network-time-security", 0, 0, 0, 15, 0>>,
     s2c |-> <<"EXPORTER-network-time-security", 0, 0, 0, 15, 1>>]

\* while !state.finished
loop_continues_always(st) == TRUE

loop_continues(st) == ~st.finished

\* the arm of the match on deserialize that only logs
skips_parsing(d) == d.tag \in {"UnknownNotCriticalRecord", "Parsing"}

skips_critical(d) == d.tag \in {"UnknownNotCriticalRecord", "UnknownCriticalRecord"}

skips(d) == d.tag = "UnknownNotCriticalRecord"

\* where the call goes once the request is flushed
after_flush_read == "loop"

after_flush == "gen_key"

\* stream.shutdown(Shutdown::Write)?
after_shutdown_ignored(ok) == "assemble"

after_shutdown(ok) == IF ok THEN "assemble" ELSE "done"

\* the scheme of the result
aead_scheme_last(st) ==
    IF st.aead_scheme = <<>> THEN DEFAULT_SCHEME ELSE st.aead_scheme[Len(st.aead_scheme)]

aead_scheme(st) ==
    IF st.aead_scheme = <<>> THEN DEFAULT_SCHEME ELSE st.aead_scheme[1]

NtsKeResult(st, cfg, k) ==
    [tag |-> "Ok",
     aead_scheme |-> aead_scheme(st),
     cookies |-> st.cookies,
     next_protocols |-> st.next_protocols,
     next_server |-> unwrap_or(st.next_server, cfg.host),
     next_port |-> unwrap_or(st.next_port, DEFAULT_NTP_PORT),
     keys |-> k,
     use_ipv6 |-> cfg.use_ipv6]

\* to_socket_addrs and the choice of an address of the wanted family
Resolve ==
    /\ hs_pc = "start"
    /\ \E use_ipv6 \in BOOLEAN, resolved \in BOOLEAN, families \in SUBSET {"v4", "v6"} :
        /\ client_config' = [host |-> Host, use_ipv6 |-> use_ipv6]
        /\ IF ~resolved
           THEN hs_ret' = Err("Resolution") /\ hs_pc' = "done"
           ELSE IF use_ipv6 /\ "v6" \notin families
           THEN hs_ret' = Err("NoIpv6AddrFound") /\ hs_pc' = "done"
           ELSE IF ~use_ipv6 /\ "v4" \notin families
           THEN hs_ret' = Err("NoIpv4AddrFound") /\ hs_pc' = "done"
           ELSE hs_pc' = "connect" /\ UNCHANGED hs_ret
    /\ UNCHANGED <<stream, nts_keys, state, header, body>>
    /\ UNCHANGED rot

\* TcpStream::connect_timeout and the two timeouts
Connect ==
    /\ hs_pc = "connect"
    /\ \E ok \in BOOLEAN :
        IF ok THEN hs_pc' = "write" /\ UNCHANGED hs_ret
        ELSE hs_ret' = Err("Connect") /\ hs_pc' = "done"
    /\ UNCHANGED <<client_config, stream, nts_keys, state, header, body>>
    /\ UNCHANGED rot

\* tls_stream.write_all(clientrec)?
WriteAll ==
    /\ hs_pc = "write"
    /\ \E ok \in BOOLEAN :
        IF ok
        THEN /\ stream' = [stream EXCEPT !.written = @ \o clientrec]
             /\ hs_pc' = "flush"
             /\ UNCHANGED hs_ret
        ELSE /\ hs_ret' = Err("Io")
             /\ hs_pc' = "done"
             /\ UNCHANGED stream
    /\ UNCHANGED <<client_config, nts_keys, state, header, body>>
    /\ UNCHANGED rot

\* tls_stream.flush()?
Flush ==
    /\ hs_pc = "flush"
    /\ \E ok \in BOOLEAN :
        IF ok
        THEN /\ stream' = [stream EXCEPT !.flushed = TRUE]
             /\ hs_pc' = after_flush
             /\ UNCHANGED hs_ret
        ELSE /\ hs_ret' = Err("Io")
             /\ hs_pc' = "done"
             /\ UNCHANGED stream
    /\ UNCHANGED <<client_config, nts_keys, state, header, body>>
    /\ UNCHANGED rot

\* records::gen_key(tls_stream.conn).unwrap(), then the fresh state
GenKey ==
    /\ hs_pc = "gen_key"
    /\ \E exported \in BOOLEAN :
        IF exported
        THEN /\ nts_keys' = Some(gen_key)
             /\ hs_pc' = "loop"
             /\ UNCHANGED hs_ret
        ELSE /\ hs_ret' = Panic
             /\ hs_pc' = "done"
             /\ UNCHANGED nts_keys
    /\ state' = state_new
    /\ UNCHANGED <<client_config, stream, header, body>>
    /\ UNCHANGED rot

\* the test of the while loop
LoopTest ==
    /\ hs_pc = "loop"
    /\ hs_pc' = IF loop_continues(state) THEN "read_header" ELSE "shutdown"
    /\ UNCHANGED <<client_config, stream, nts_keys, state, header, body, hs_ret>>
    /\ UNCHANGED rot

\* tls_stream.read_exact(&mut header[..])
ReadHeader ==
    /\ hs_pc = "read_header"
    /\ \/ \E f \in Frames :
            /\ Len(stream.read) < MaxRecords
            /\ stream' = [stream EXCEPT !.read = Append(@, f), !.nread = @ + 1]
            /\ header' = SubSeq(serialize(f), 1, HEADER_SIZE)
            /\ body' = <<>>
            /\ hs_pc' = "read_body"
            /\ UNCHANGED hs_ret
       \/ /\ stream' = [stream EXCEPT !.nread = @ + 1]
          /\ hs_ret' = Err("Io")
          /\ hs_pc' = "done"
          /\ UNCHANGED <<header, body>>
    /\ UNCHANGED <<client_config, nts_keys, state>>
    /\ UNCHANGED rot

\* body_length from the header, then tls_stream.read_exact(body)
ReadBody ==
    /\ hs_pc = "read_body"
    /\ LET body_length == u16_from_be_bytes(header[3], header[4])
           sent == stream.read[Len(stream.read)].body
       IN  \E arrived \in BOOLEAN :
            IF arrived
            THEN /\ body' = SubSeq(sent, 1, body_length)
                 /\ hs_pc' = "deserialize"
                 /\ UNCHANGED hs_ret
            ELSE /\ hs_ret' = Err("Io")
                 /\ hs_pc' = "done"
                 /\ UNCHANGED body
    /\ stream' = [stream EXCEPT !.nread = @ + 1]
    /\ UNCHANGED <<client_config, nts_keys, state, header>>
    /\ UNCHANGED rot

\* match deserialize(Party::Client, record_bytes)
Dispatch ==
    /\ hs_pc = "deserialize"
    /\ LET d == deserialize(header \o body) IN
        IF d.tag = "Ok"
        THEN LET status == process_record(d, state) IN
             IF status.tag = "Ok"
             THEN /\ state' = status.state
                  /\ hs_pc' = "loop"
                  /\ UNCHANGED hs_ret
             ELSE /\ hs_ret' = Err("ServerError")
                  /\ hs_pc' = "done"
                  /\ UNCHANGED state
        ELSE IF skips(d)
        THEN /\ hs_pc' = "loop"
             /\ UNCHANGED <<state, hs_ret>>
        ELSE /\ hs_ret' = Err(d.tag)
             /\ hs_pc' = "done"
             /\ UNCHANGED state
    /\ UNCHANGED <<client_config, stream, nts_keys, header, body>>
    /\ UNCHANGED rot

\* stream.shutdown(Shutdown::Write)?
ShutdownWrite ==
    /\ hs_pc = "shutdown"
    /\ \E ok \in BOOLEAN :
        /\ stream' = [stream EXCEPT !.shut_write = ok]
        /\ hs_pc' = after_shutdown(ok)
        /\ hs_ret' = IF after_shutdown(ok) = "done" THEN Err("Io") ELSE hs_ret
    /\ UNCHANGED <<client_config, nts_keys, state, header, body>>
    /\ UNCHANGED rot

\* Ok(NtsKeResult { .. })
Assemble ==
    /\ hs_pc = "assemble"
    /\ hs_ret' = NtsKeResult(state, client_config, nts_keys.val)
    /\ hs_pc' = "done"
    /\ UNCHANGED <<client_config, stream, nts_keys, state, header, body>>
    /\ UNCHANGED rot

HsNext ==
    \/ Resolve
    \/ Connect
    \/ WriteAll
    \/ Flush
    \/ GenKey
    \/ LoopTest
    \/ ReadHeader
    \/ ReadBody
    \/ Dispatch
    \/ ShutdownWrite
    \/ Assemble

\* the call, next to the idle rotor of test_rotation
HsSpec == FairInit /\ [][HsNext]_vars

(***************************************************************************)
(* What the server sent, told apart by the fields of the frames.           *)
(***************************************************************************)
Succeeded == hs_ret.tag = "Ok"
Errored == hs_ret.tag = "Err"
Done == hs_pc = "done"

Received == stream.read
IsEndOfMessage(f) == f.type = 0 /\ f.critical /\ f.body = <<>>
IsUnknown(f) == f.type \notin 0..7
\* a well-formed known record other than Error and End-of-Message, or an unknown one that is not critical
Acceptable(f) ==
    \/ f.type \in {1, 4} /\ Len(f.body) % 2 = 0
    \/ f.type \in {3, 7} /\ Len(f.body) = 2
    \/ f.type \in {5, 6}
    \/ IsUnknown(f) /\ ~f.critical
Rejected(f) == ~IsEndOfMessage(f) /\ ~Acceptable(f)
U16Of(b) == b[1] * 256 + b[2]
Indices(t) == {k \in 1..Len(Received) : Received[k].type = t}
Highest(S) == CHOOSE k \in S : \A j \in S : j <= k
Lowest(S) == CHOOSE k \in S : \A j \in S : k <= j

(***************************************************************************)
(* C11: once state.finished is true the client reads nothing more from the *)
(* stream and processes no further record: no step changes the number of   *)
(* reads or the state, so finished is set once and never cleared.          *)
(***************************************************************************)
C11_Terminal ==
    [][state.finished =>
          /\ stream'.nread = stream.nread
          /\ stream'.read = stream.read
          /\ state' = state]_vars

\* a call that returned its result while the server could have sent more
C11_Witness ==
    /\ Done
    /\ Succeeded
    /\ state.finished
    /\ Len(Received) < MaxRecords

(***************************************************************************)
(* C12: a result is returned only if the last record read is a well-formed *)
(* End-of-Message and every record before it was acceptable; a call that   *)
(* read a rejected record (Error, unknown critical, malformed), or whose   *)
(* stream ended before End-of-Message, returned an error.                  *)
(***************************************************************************)
C12_ResultOnlyAfterCleanStream ==
    /\ Succeeded =>
          /\ Received # <<>>
          /\ IsEndOfMessage(Received[Len(Received)])
          /\ \A k \in 1..(Len(Received) - 1) : Acceptable(Received[k])
    /\ (Done /\ \E k \in 1..Len(Received) : Rejected(Received[k])) => Errored
    /\ (Done /\ stream.nread > 0 /\ \A k \in 1..Len(Received) : ~IsEndOfMessage(Received[k]))
          => Errored

\* a call that failed on a rejected record after it had accepted another
C12_Witness ==
    /\ Done
    /\ Errored
    /\ Len(Received) >= 2
    /\ Rejected(Received[Len(Received)])
    /\ hs_ret.kind \in {"ServerError", "Parsing", "UnknownCriticalRecord"}

(***************************************************************************)
(* C13: the step that handles an unknown record leaves state unchanged and *)
(* goes back to the loop, which reads again, when the critical bit is      *)
(* clear; it returns an error when the critical bit is set.                *)
(***************************************************************************)
C13_UnknownRecords ==
    [][/\ (hs_pc = "deserialize" /\ IsUnknown(Received[Len(Received)])) =>
              IF Received[Len(Received)].critical
              THEN hs_pc' = "done" /\ hs_ret'.tag = "Err" /\ state' = state
              ELSE hs_pc' = "loop" /\ hs_ret' = hs_ret /\ state' = state
       /\ (hs_pc = "loop" /\ ~state.finished) => hs_pc' = "read_header"]_vars

\* a handshake that went through although it met an unknown record
C13_Witness ==
    /\ Succeeded
    /\ \E k \in 1..Len(Received) : IsUnknown(Received[k])

(***************************************************************************)
(* C14: in a returned result next_port is 123 or the last Port received,   *)
(* next_server is the host or the last Server received, and aead_scheme is *)
(* 0 or the first AEAD ID received.                                        *)
(***************************************************************************)
C14_Defaults ==
    Succeeded =>
        /\ hs_ret.next_port =
              IF Indices(7) = {} THEN 123 ELSE U16Of(Received[Highest(Indices(7))].body)
        /\ hs_ret.next_server =
              IF Indices(6) = {} THEN client_config.host
              ELSE Received[Highest(Indices(6))].body
        /\ hs_ret.aead_scheme =
              IF Indices(4) = {} THEN 0 ELSE U16Of(Received[Lowest(Indices(4))].body)

\* a result after two AEAD records that name different schemes
C14_Witness ==
    /\ Succeeded
    /\ \E j, k \in Indices(4) : j < k /\ Received[j].body # Received[k].body

(***************************************************************************)
(* C15: whenever a read of the response has been attempted, the request,   *)
(* exactly the three records Next-Protocol([0]), AEAD([15]),               *)
(* End-of-Message, has been written and flushed and the keys are exported; *)
(* the keys are exported only after the flush.                             *)
(***************************************************************************)
C15_RequestBeforeResponse ==
    /\ stream.written \in {<<>>, <<128, 1, 0, 2, 0, 0, 128, 4, 0, 2, 0, 15, 128, 0, 0, 0>>}
    /\ stream.flushed => stream.written # <<>>
    /\ nts_keys.tag = "Some" => stream.flushed
    /\ stream.nread > 0 => (stream.flushed /\ nts_keys.tag = "Some")

\* the first read of the response
C15_Witness == hs_pc = "read_body" /\ stream.nread = 1

(***************************************************************************)
(* C16: a call of run_nts_ke_client ends by returning a result or an       *)
(* error, also when the TLS stack refuses to export keys.                  *)
(***************************************************************************)
C16_ExporterFailureReturned == Done => hs_ret.tag \in {"Ok", "Err"}

(***************************************************************************)
(* C17: the write side is shut down only once End-of-Message was received, *)
(* a returned result implies the write side was shut down, and a call that *)
(* met a failure anywhere returns no result.                               *)
(***************************************************************************)
C17_HalfClose ==
    /\ stream.shut_write =>
          (state.finished /\ Received # <<>> /\ IsEndOfMessage(Received[Len(Received)]))
    /\ Succeeded => stream.shut_write
    /\ (Done /\ ~stream.shut_write) => ~Succeeded

\* a returned result that carries a cookie, the write side shut down
C17_Witness ==
    /\ Succeeded
    /\ stream.shut_write
    /\ hs_ret.cookies # <<>>

(***************************************************************************)
(* C18: a step of a rotation that finds a slot absent leaves keys as it    *)
(* is, and an entry of keys disappears or changes only in the retirement   *)
(* step, which removes one entry, or in the step that installs the value   *)
(* read for that entry's own slot.                                         *)
(***************************************************************************)
C18_AbsentSlotKeepsEntry ==
    [][/\ (pc = "loop" /\ i' = i + 1 /\ db_val' = CacheNone) => keys' = keys
       /\ \A k \in DOMAIN keys :
             (k \notin DOMAIN keys' \/ keys'[k] # keys[k]) =>
                 \/ pc = "retire" /\ DOMAIN keys \ DOMAIN keys' = {k}
                 \/ pc = "loop" /\ db_val'.tag = "Some" /\ key_id' = k]_vars

\* a rotation that has just found a slot absent whose KeyID has an entry from an earlier rotation
C18_Witness ==
    /\ pc \in {"loop", "retire"}
    /\ ret = "Running"
    /\ db_val = CacheNone
    /\ key_id \in DOMAIN keys

(***************************************************************************)
(* C19: the ticker holds no lock while it sleeps, does not hold the write  *)
(* guard when it asks for the read guard, holds the read guard only to     *)
(* read duration, and the write guard is held only during a rotation.      *)
(***************************************************************************)
C19_TickerLocks ==
    /\ pc = "sleep" => (~rw.writer /\ Ticker \notin rw.readers)
    /\ pc = "read_sleep" => (~rw.writer /\ Ticker \notin rw.readers)
    /\ Ticker \in rw.readers <=> pc = "drop_read"
    /\ rw.writer => InRotation

\* a handler reading while the ticker sleeps after a rotation
C19_Witness ==
    /\ pc = "sleep"
    /\ restlen = duration
    /\ latest_from # {}
    /\ \E r \in Readers : rpc[r] = "reading"

(***************************************************************************)
(* C20: when rotate_keys returns after it has set latest, keys has an      *)
(* entry under latest, so that latest() finds the wrapped key.             *)
(***************************************************************************)
C20_LatestPresent == Processed => latest \in DOMAIN keys

====
